---------------------------- MODULE Spec2Model ----------------------------
(***************************************************************************)
(* bad-apple-particle (src/src/main.rs): a Bevy application that streams   *)
(* the frames of a video through a bounded prefetch queue (Player) and     *)
(* lets a field of particles random-walk over the bright pixels of the     *)
(* displayed frame.                                                        *)
(*                                                                         *)
(* One step of the model is one run of one system of the Update schedule.  *)
(* The systems are registered without ordering constraints (main, lines    *)
(* 215-222), so within a frame they run once each, in any order; `pending` *)
(* holds the systems that have not run yet in the current frame.           *)
(*                                                                         *)
(* Scaling.  The video has 6572 frames of 480 x 360 pixels, the queue 256  *)
(* entries and the field 30000 particles.  The model keeps the code and    *)
(* scales these numbers: FRAMES = 10 and PREFETCH = 4 (Scenario A of the   *)
(* specification), a 16 x 12 raster and one particle.  Particle            *)
(* coordinates are f32 in the code but only ever hold integers (integer    *)
(* spawn positions, integer steps, integer wrap targets), so they are      *)
(* integers here.  Time is counted in ticks of 1/(FPS*Sub) seconds.        *)
(***************************************************************************)
EXTENDS Integers, Sequences, FiniteSets

\* ---- program constants (scaled, see above) ----
FRAMES   == 10      \* const FRAMES, main.rs:6
PREFETCH == 4       \* the literal 256 of load_frames, main.rs:46
WIDTH    == 16      \* const WIDTH, main.rs:8
HEIGHT   == 12      \* const HEIGHT, main.rs:9
HalfW    == 8       \* the literal 240.0, main.rs:95,111-115
HalfH    == 6       \* the literal 180.0, main.rs:95,117-121
MaxStep  == 5       \* gen_range(-5..=5), main.rs:105
Threshold == 128    \* color > 128, main.rs:102
N        == 1       \* for _ in 0..30000, main.rs:181

\* ---- bounds of the model ----
Sub        == 2     \* clock ticks per frame period 1/FPS
MaxDt      == 4     \* largest time.delta() of one frame, in ticks
MaxElapsed == 24    \* the run is observed for this many ticks of playback
FieldElapsed == 2   \* the same, for the specification with the particle field
StuckFrame == 2     \* the frame whose handle may never resolve

\* sampled 8-bit intensities: the two sides of the comparison of main.rs:102
Colors == {Threshold, Threshold + 1}
Steps  == (-MaxStep)..MaxStep

VARIABLES
    state,       \* Resource State: "Paused" | "Playing"
    key,         \* keyboard.just_released(Space) in the current frame
    pending,     \* systems of the Update schedule still to run this frame
    buffer,      \* Player.buffer: queue of requested frame indices (handles)
    play_index,  \* Player.play_index
    load_index,  \* Player.load_index
    elapsed,     \* Player.time (Stopwatch), in ticks
    image,       \* the sprite's Handle<Image>: frame index, 0 = Handle::default()
    img,         \* what Assets<Image>.get(image) gives: "unresolved" | "ok" | "badsize"
    stuck,       \* frame index whose handle never resolves (0: none)
    sink_ready,  \* sinks.get(&music_player.0) is Some
    cmd,         \* command given to the AudioSink in the current frame
    particles    \* the Particle entities: [x, y, standstill, tx, ty, color]

vars == <<state, key, pending, buffer, play_index, load_index, elapsed,
          image, img, stuck, sink_ready, cmd, particles>>

playerVars   == <<buffer, play_index, load_index, elapsed, image, img>>
controlVars  == <<state, key>>
audioVars    == <<sink_ready, cmd>>

ControlSystems == {"set_state", "play_audio", "load_frames", "update_sprite"}
FieldSystems   == {"set_state", "load_frames", "update_sprite", "move_particle"}

\* ---------------------------------------------------------------- startup
\* x, y: Transform.translation; standstill: Particle.0; tx, ty, color: the
\* locals of the latest run of the closure of move_particle (the translation
\* before the wrap, the sampled intensity; -1 before the first run)
InitParticle(x, y) ==
    [x |-> x, y |-> y, standstill |-> 0, tx |-> x, ty |-> y, color |-> -1]

InitPlayer ==
    /\ buffer = <<>>
    /\ play_index = 0
    /\ load_index = 1
    /\ elapsed = 0
    /\ image = 0
    /\ img = "unresolved"

InitWorld ==
    /\ state = "Paused"
    /\ key = FALSE
    /\ pending = {}
    /\ InitPlayer
    /\ sink_ready = FALSE
    /\ cmd = "none"

\* startup spawns every particle at a random integer position of the domain
Init ==
    /\ InitWorld
    /\ stuck = 0
    /\ particles \in [1..N -> {InitParticle(x, y) :
                                 x \in (-HalfW)..(HalfW - 1),
                                 y \in (-HalfH)..(HalfH - 1)}]

\* the same start with the particles at one of these positions, and with
\* or without a frame that the loader never delivers
InitControl ==
    /\ InitWorld
    /\ stuck \in {0, StuckFrame}
    /\ particles = [i \in 1..N |-> InitParticle(0, 0)]

\* ------------------------------------------------------------- controller
is_playing_always(s) == TRUE

is_playing(s) == s = "Playing"

set_state_sticky(s, k) == IF k THEN "Playing" ELSE s

set_state(s, k) ==
    IF k THEN (IF s = "Playing" THEN "Paused" ELSE "Playing") ELSE s

SetState ==
    /\ "set_state" \in pending
    /\ pending' = pending \ {"set_state"}
    /\ state' = set_state(state, key)
    /\ UNCHANGED <<key, playerVars, stuck, audioVars, particles>>

\* ------------------------------------------------------------------ audio
play_audio_inverted(ready, s) ==
    IF ready THEN (IF s = "Playing" THEN "pause" ELSE "play") ELSE "skip"

play_audio(ready, s) ==
    IF ready THEN (IF s = "Playing" THEN "play" ELSE "pause") ELSE "skip"

PlayAudio ==
    /\ "play_audio" \in pending
    /\ pending' = pending \ {"play_audio"}
    /\ cmd' = IF play_audio(sink_ready, state) = "skip"
              THEN cmd ELSE play_audio(sink_ready, state)
    /\ UNCHANGED <<controlVars, playerVars, stuck, sink_ready, particles>>

\* the audio output resolves the sink handle at some point
ResolveSink ==
    /\ pending = {}
    /\ ~sink_ready
    /\ sink_ready' = TRUE
    /\ UNCHANGED <<controlVars, pending, playerVars, stuck, cmd, particles>>

\* ----------------------------------------------------------------- player
RECURSIVE fill_le(_, _)
fill_le(buf, idx) ==
    IF Len(buf) <= PREFETCH THEN fill_le(Append(buf, idx), idx + 1)
    ELSE <<buf, idx>>

\* while player.buffer.len() < 256 { push_back(load(idx)); load_index += 1 }
RECURSIVE fill(_, _)
fill(buf, idx) ==
    IF Len(buf) < PREFETCH THEN fill(Append(buf, idx), idx + 1)
    ELSE <<buf, idx>>

load_frames_gt(buf, idx) ==
    IF idx > FRAMES THEN <<buf, idx>> ELSE fill(buf, idx)

\* if player.load_index >= FRAMES { return; } and then the loop
load_frames(buf, idx) ==
    IF idx >= FRAMES THEN <<buf, idx>> ELSE fill(buf, idx)

LoadFrames ==
    /\ "load_frames" \in pending
    /\ pending' = pending \ {"load_frames"}
    /\ buffer' = load_frames(buffer, load_index)[1]
    /\ load_index' = load_frames(buffer, load_index)[2]
    /\ UNCHANGED <<controlVars, play_index, elapsed, image, img, stuck,
                   audioVars, particles>>

current_idx(t) == t \div Sub

\* the result of update_sprite after the stopwatch has ticked to t:
\* <<buffer, play_index, image, whether a frame was installed>>
update_sprite_eager(buf, pi, im, t) ==
    IF pi < current_idx(t)
    THEN IF buf # <<>> THEN <<Tail(buf), pi + 1, Head(buf), TRUE>>
                       ELSE <<buf, pi + 1, im, FALSE>>
    ELSE <<buf, pi, im, FALSE>>

update_sprite_ready(buf, pi, im, t) ==
    IF pi < current_idx(t) /\ buf # <<>> /\ Head(buf) # stuck
    THEN <<Tail(buf), pi + 1, Head(buf), TRUE>>
    ELSE <<buf, pi, im, FALSE>>

update_sprite_le(buf, pi, im, t) ==
    IF pi <= current_idx(t) /\ buf # <<>>
    THEN <<Tail(buf), pi + 1, Head(buf), TRUE>>
    ELSE <<buf, pi, im, FALSE>>

update_sprite(buf, pi, im, t) ==
    IF pi < current_idx(t) /\ buf # <<>>
    THEN <<Tail(buf), pi + 1, Head(buf), TRUE>>
    ELSE <<buf, pi, im, FALSE>>

UpdateSpriteUpTo(cap) ==
    /\ "update_sprite" \in pending
    /\ pending' = pending \ {"update_sprite"}
    /\ IF is_playing(state)
       THEN \E dt \in 0..MaxDt :
              /\ elapsed + dt <= cap
              /\ elapsed' = elapsed + dt
              /\ LET r == update_sprite(buffer, play_index, image, elapsed + dt)
                 IN /\ buffer' = r[1]
                    /\ play_index' = r[2]
                    /\ image' = r[3]
                    /\ img' = IF r[4] THEN "unresolved" ELSE img
       ELSE UNCHANGED <<buffer, play_index, elapsed, image, img>>
    /\ UNCHANGED <<controlVars, load_index, stuck, audioVars, particles>>

UpdateSprite == UpdateSpriteUpTo(MaxElapsed)

UpdateSpriteField == UpdateSpriteUpTo(FieldElapsed)

\* the asset server resolves the displayed handle, to a raster of the
\* expected size or of another size
ResolveImage ==
    /\ image # 0
    /\ image # stuck
    /\ img = "unresolved"
    /\ img' \in {"ok", "badsize"}
    /\ UNCHANGED <<controlVars, pending, buffer, play_index, load_index,
                   elapsed, image, stuck, audioVars, particles>>

\* --------------------------------------------------------- particle field
wrap_gt(v, half) ==
    LET v1 == IF v < -half THEN half ELSE v
    IN  IF v1 > half THEN -half ELSE v1

wrap_mod(v, half) ==
    IF v < -half THEN v + 2 * half
    ELSE IF v >= half THEN v - 2 * half ELSE v

\* if t < -half { t = half }  if t >= half { t = -half }
wrap(v, half) ==
    LET v1 == IF v < -half THEN half ELSE v
    IN  IF v1 >= half THEN -half ELSE v1

\* as_uvec2: a float to u32 conversion saturates at 0
as_u(v) == IF v < 0 THEN 0 ELSE v

saturating_sub(a, b) == IF a < b THEN 0 ELSE a - b

clamp(v, lo, hi) == IF v < lo THEN lo ELSE IF v > hi THEN hi ELSE v

pixel_unflipped(p) == <<as_u(p.x + HalfW), as_u(p.y + HalfH)>>

\* pos = translation + (240, 180) as uvec2; pos.y = (HEIGHT-1) - pos.y:
\* <<column, row>> before the clamp
pixel(p) ==
    <<as_u(p.x + HalfW), saturating_sub(HEIGHT - 1, as_u(p.y + HalfH))>>

\* idx = pos.y.clamp(0, HEIGHT-1) * WIDTH + pos.x.clamp(0, WIDTH-1)
pixel_index(p) ==
    clamp(pixel(p)[2], 0, HEIGHT - 1) * WIDTH + clamp(pixel(p)[1], 0, WIDTH - 1)

move_one_wide(p, color, dx, dy, pi) ==
    LET tx == IF color > Threshold THEN p.x + 2 * dx ELSE p.x
        ty == IF color > Threshold THEN p.y + 2 * dy ELSE p.y
    IN  [x |-> wrap(tx, HalfW),
         y |-> wrap(ty, HalfH),
         standstill |-> IF color > Threshold THEN p.standstill ELSE pi,
         tx |-> tx,
         ty |-> ty,
         color |-> color]

move_one_drift(p, color, dx, dy, pi) ==
    LET tx == p.x + dx
        ty == p.y + dy
    IN  [x |-> wrap(tx, HalfW),
         y |-> wrap(ty, HalfH),
         standstill |-> IF color > Threshold THEN p.standstill ELSE pi,
         tx |-> tx,
         ty |-> ty,
         color |-> color]

move_one_ahead(p, color, dx, dy, pi) ==
    LET tx == IF color > Threshold THEN p.x + dx ELSE p.x
        ty == IF color > Threshold THEN p.y + dy ELSE p.y
    IN  [x |-> wrap(tx, HalfW),
         y |-> wrap(ty, HalfH),
         standstill |-> IF color > Threshold THEN p.standstill ELSE pi + 1,
         tx |-> tx,
         ty |-> ty,
         color |-> color]

\* the closure body of move_particle for one particle
move_one(p, color, dx, dy, pi) ==
    LET tx == IF color > Threshold THEN p.x + dx ELSE p.x
        ty == IF color > Threshold THEN p.y + dy ELSE p.y
    IN  [x |-> wrap(tx, HalfW),
         y |-> wrap(ty, HalfH),
         standstill |-> IF color > Threshold THEN p.standstill ELSE pi,
         tx |-> tx,
         ty |-> ty,
         color |-> color]

raster_resolved(im) == im # "unresolved"

\* images.get(player_image) is Some and the raster is WIDTH x HEIGHT
raster_ok(im) == im = "ok"

MoveParticle ==
    /\ "move_particle" \in pending
    /\ pending' = pending \ {"move_particle"}
    /\ IF is_playing(state) /\ raster_ok(img)
       THEN \E rnd \in [1..N -> Colors \X Steps \X Steps] :
              particles' = [i \in 1..N |->
                  move_one(particles[i], rnd[i][1], rnd[i][2], rnd[i][3],
                           play_index)]
       ELSE UNCHANGED particles
    /\ UNCHANGED <<controlVars, playerVars, stuck, audioVars>>

\* --------------------------------------------------------------- schedule
BeginFrameOf(systems) ==
    /\ pending = {}
    /\ pending' = systems
    /\ key' \in BOOLEAN
    /\ cmd' = "none"
    /\ UNCHANGED <<state, playerVars, stuck, sink_ready, particles>>

BeginFrame == BeginFrameOf(ControlSystems)

BeginFieldFrame == BeginFrameOf(FieldSystems)

\* controller, audio, player and asset server
Next ==
    \/ BeginFrame
    \/ SetState
    \/ PlayAudio
    \/ ResolveSink
    \/ LoadFrames
    \/ UpdateSprite
    \/ ResolveImage

Spec == InitControl /\ [][Next]_vars

\* controller, player and particle field
NextField ==
    \/ BeginFieldFrame
    \/ SetState
    \/ LoadFrames
    \/ UpdateSpriteField
    \/ ResolveImage
    \/ MoveParticle

SpecField == Init /\ [][NextField]_vars


\* ================================================================= claims
\* the system `sys` runs in this step
Ran(sys) == sys \in pending /\ sys \notin pending'

Flip(s) == IF s = "Playing" THEN "Paused" ELSE "Playing"

Mirror(s) == IF s = "Playing" THEN "play" ELSE "pause"

\* C1: in every reachable state load_index <= FRAME_COUNT, that is, refill
\* never requests a frame whose index is FRAME_COUNT or more.
C1_LoadWithinFrames == load_index <= FRAMES

C3_QueueShape ==
    /\ buffer = [i \in 1..(load_index - play_index - 1) |-> play_index + i]
    /\ image = play_index

C3_Step ==
    /\ play_index' # play_index =>
         /\ Ran("update_sprite")
         /\ buffer # <<>>
         /\ play_index' = play_index + 1
         /\ buffer' = Tail(buffer)
         /\ image' = Head(buffer)
    /\ (Ran("update_sprite") /\ buffer = <<>>) =>
         (play_index' = play_index /\ image' = image)
    /\ image' # image => play_index' # play_index

C3_InOrder == [] C3_QueueShape /\ [][C3_Step]_vars

\* several frames have been dequeued in turn while the clock is further ahead
C3_Dequeued ==
    /\ play_index >= 3
    /\ play_index < current_idx(elapsed)
    /\ Len(buffer) >= 2

\* C4: in every reachable state 0 <= play_index <= load_index.
C4_PlayBehindLoad == 0 <= play_index /\ play_index <= load_index

\* the display has caught up with the loader at the end of the stream
C4_CaughtUp ==
    /\ play_index >= FRAMES - 1
    /\ buffer = <<>>
    /\ play_index + 1 = load_index
    /\ play_index < current_idx(elapsed)

\* C5: the pending queue never holds more than PREFETCH handles.
C5_QueueBounded == Len(buffer) <= PREFETCH

\* the queue has been refilled to its capacity after a dequeue
C5_QueueFull == Len(buffer) = PREFETCH /\ play_index > 0

\* C6: a step taken while the Controller is Paused leaves the elapsed
\* playback time, play_index, the displayed frame and every particle
\* unchanged.
C6_PausedFreezes ==
    [][state = "Paused" => UNCHANGED <<elapsed, play_index, image, particles>>]_vars

\* a whole frame has run while Paused, after some playback
C6_PausedFrameDone ==
    /\ state = "Paused"
    /\ ~key
    /\ pending = {}
    /\ play_index > 0
    /\ img = "ok"

\* C7: the Controller starts Paused, is always Paused or Playing, changes
\* only when set_state sees the toggle event, which flips it; a second
\* toggle gives the original state back; without the event set_state leaves
\* it unchanged.
C7_Step ==
    /\ state' # state => (Ran("set_state") /\ key)
    /\ (Ran("set_state") /\ key) => state' = Flip(state)
    /\ (Ran("set_state") /\ ~key) => state' = state
    /\ set_state(set_state(state, TRUE), TRUE) = state

C7_Toggle ==
    /\ state = "Paused"
    /\ [](state \in {"Paused", "Playing"})
    /\ [][C7_Step]_vars

\* the second toggle has just returned the Controller to Paused
C7_ToggledTwice ==
    /\ state = "Paused"
    /\ key
    /\ "set_state" \notin pending
    /\ elapsed > 0

\* C8 (as stated): no command while the sink handle is unresolved, and the
\* command given in a step matches the Controller state that the step ends
\* with, whatever the order of the toggle system and the audio system.
C8_SameStepCommand ==
    /\ ~sink_ready => cmd = "none"
    /\ (pending = {} /\ cmd # "none") => cmd = Mirror(state)

\* C8 (amended): play_audio gives exactly one command when the sink handle
\* is resolved, matching the Controller state at the moment it runs, and
\* none when it is not; so a step without a toggle ends with the matching
\* command, and a toggle that runs after the audio system is mirrored by the
\* command of the next step.
C8_AudioStep ==
    Ran("play_audio") =>
        IF sink_ready THEN cmd = "none" /\ cmd' = Mirror(state)
        ELSE cmd' = "none"

C8_MirrorsWhenRun ==
    /\ [][C8_AudioStep]_vars
    /\ [](~sink_ready => cmd = "none")
    /\ []((pending = {} /\ cmd # "none" /\ ~key) => cmd = Mirror(state))

\* the toggle ran before the audio system: play() in the step of the toggle
C8_PlayIssued ==
    /\ pending = {}
    /\ key
    /\ state = "Playing"
    /\ cmd = "play"

\* C9: every particle stays in the domain [-W/2, W/2) x [-H/2, H/2).
C9_InDomain ==
    \A i \in 1..N :
        /\ -(WIDTH \div 2) <= particles[i].x
        /\ particles[i].x < WIDTH \div 2
        /\ -(HEIGHT \div 2) <= particles[i].y
        /\ particles[i].y < HEIGHT \div 2

\* a tick has stepped a particle below the lower edge of both axes
C9_SteppedBelow ==
    \E i \in 1..N :
        /\ particles[i].tx < -(WIDTH \div 2)
        /\ particles[i].ty < -(HEIGHT \div 2)

\* C10 (as stated): a step to x >= W/2 ends at x - W, a step to x < -W/2
\* ends at x + W, both inside the domain; the same for y with H.
C10_WrapLaw ==
    \A i \in 1..N :
        LET p == particles[i] IN
        /\ p.tx >= WIDTH \div 2 =>
             (p.x = p.tx - WIDTH /\ -(WIDTH \div 2) <= p.x /\ p.x < WIDTH \div 2)
        /\ p.tx < -(WIDTH \div 2) =>
             (p.x = p.tx + WIDTH /\ -(WIDTH \div 2) <= p.x /\ p.x < WIDTH \div 2)
        /\ p.ty >= HEIGHT \div 2 =>
             (p.y = p.ty - HEIGHT /\ -(HEIGHT \div 2) <= p.y /\ p.y < HEIGHT \div 2)
        /\ p.ty < -(HEIGHT \div 2) =>
             (p.y = p.ty + HEIGHT /\ -(HEIGHT \div 2) <= p.y /\ p.y < HEIGHT \div 2)

\* C10 (amended): a step to x >= W/2 or to x < -W/2 ends at exactly -W/2,
\* which is inside the domain; the same for y with H.  A step that stays
\* inside the domain is kept as it is.
C10_Teleport ==
    \A i \in 1..N :
        LET p == particles[i] IN
        /\ p.x = IF p.tx >= WIDTH \div 2 \/ p.tx < -(WIDTH \div 2)
                 THEN -(WIDTH \div 2) ELSE p.tx
        /\ p.y = IF p.ty >= HEIGHT \div 2 \/ p.ty < -(HEIGHT \div 2)
                 THEN -(HEIGHT \div 2) ELSE p.ty
        /\ -(WIDTH \div 2) <= p.x /\ p.x < WIDTH \div 2
        /\ -(HEIGHT \div 2) <= p.y /\ p.y < HEIGHT \div 2

\* a tick has stepped a particle strictly past the upper edge of an axis
C10_Overshoot ==
    \E i \in 1..N :
        \/ particles[i].tx > WIDTH \div 2
        \/ particles[i].ty > HEIGHT \div 2

\* move_particle runs in this step and gets past its guards
Ticks == Ran("move_particle") /\ is_playing(state) /\ raster_ok(img)

\* C11: in a tick on a frame of the expected size, a particle that samples
\* an intensity <= 128 ends the tick at the position it started with and
\* with last_moved_index (standstill) equal to the current play_index.
C11_Step ==
    Ticks => \A i \in 1..N :
        particles'[i].color <= Threshold =>
            /\ particles'[i].x = particles[i].x
            /\ particles'[i].y = particles[i].y
            /\ particles'[i].standstill = play_index

C11_Freeze == [][C11_Step]_vars

\* a particle was found still on a dark pixel of frame 1
C11_Frozen ==
    \E i \in 1..N :
        /\ particles[i].color \in 0..Threshold
        /\ particles[i].standstill = play_index
        /\ play_index > 0

\* C12 (as stated): a particle that samples an intensity > 128 always
\* changes position in that tick, by at most 5 per axis before the wrap.
C12_AlwaysMovesStep ==
    Ticks => \A i \in 1..N :
        particles'[i].color > Threshold =>
            /\ <<particles'[i].x, particles'[i].y>> # <<particles[i].x, particles[i].y>>
            /\ particles'[i].tx - particles[i].x \in Steps
            /\ particles'[i].ty - particles[i].y \in Steps

C12_AlwaysMoves == [][C12_AlwaysMovesStep]_vars

\* C12 (amended): a particle that samples an intensity > 128 takes a step
\* of at most 5 per axis before the wrap and keeps its last_moved_index;
\* a coordinate stays where it was only if its offset is 0 or if it steps
\* below the lower edge from the lower edge, where the wrap puts it back.
C12_StepInRange ==
    Ticks => \A i \in 1..N :
        particles'[i].color > Threshold =>
            /\ particles'[i].tx - particles[i].x \in Steps
            /\ particles'[i].ty - particles[i].y \in Steps
            /\ particles'[i].standstill = particles[i].standstill
            /\ particles'[i].x = particles[i].x =>
                 \/ particles'[i].tx = particles[i].x
                 \/ particles[i].x = -HalfW /\ particles'[i].tx < -HalfW
            /\ particles'[i].y = particles[i].y =>
                 \/ particles'[i].ty = particles[i].y
                 \/ particles[i].y = -HalfH /\ particles'[i].ty < -HalfH

C12_Steps == [][C12_StepInRange]_vars

\* a particle on a bright pixel of frame 1 has stepped without leaving the domain
C12_Stepped ==
    \E i \in 1..N :
        /\ particles[i].color > Threshold
        /\ particles[i].tx = particles[i].x
        /\ particles[i].ty = particles[i].y
        /\ play_index > 0

\* C13: when the displayed handle is unresolved or its raster has another
\* size than WIDTH x HEIGHT, a run of move_particle changes no particle.
C13_SkipsBadRaster ==
    [][(Ran("move_particle") /\ img # "ok") => UNCHANGED particles]_vars

\* a frame has run to its end while Playing on a raster of another size
C13_BadSizeFrameDone ==
    /\ img = "badsize"
    /\ state = "Playing"
    /\ ~key
    /\ pending = {}

\* C14 (as stated): with FRAME_COUNT = 10 and PREFETCH_DEPTH = 4, refill
\* calls from the initial state leave load_index = 4 and 4 frames queued,
\* and load_index never becomes 11 or more.
C14_ScenarioA ==
    /\ (play_index = 0 /\ buffer # <<>>) => (load_index = 4 /\ Len(buffer) = 4)
    /\ load_index <= FRAMES

\* C14 (amended): refill calls from the initial state leave load_index = 5
\* and 4 frames queued; as frames are dequeued a refill fills the queue up
\* again, and once load_index >= 10 a refill enqueues nothing.
C14_FirstFill ==
    (play_index = 0 /\ buffer # <<>>) => (load_index = 5 /\ Len(buffer) = 4)

C14_RefillStep ==
    Ran("load_frames") =>
        IF load_index >= FRAMES
        THEN UNCHANGED <<buffer, load_index>>
        ELSE /\ Len(buffer') = PREFETCH
             /\ load_index' = load_index + (PREFETCH - Len(buffer))

C14_Refill == [] C14_FirstFill /\ [][C14_RefillStep]_vars

\* a refill has left the queue two short at the end of the stream
C14_RefillStopped ==
    /\ load_index >= FRAMES
    /\ pending = {}
    /\ buffer # <<>>
    /\ Len(buffer) <= PREFETCH - 2

\* C15: at the end of the stream (nothing left to request, the queue
\* drained) the displayed frame is the last frame, FRAME_COUNT - 1, and
\* play_index = FRAME_COUNT - 1.
C15_LastFrameShown ==
    (load_index >= FRAMES /\ buffer = <<>>) =>
        (play_index = FRAMES - 1 /\ image = FRAMES - 1)

\* C16: a step to x >= W/2 ends the tick at exactly x = -W/2, whatever the
\* overshoot; the same for y with H.
C16_UpperTeleport ==
    \A i \in 1..N :
        /\ particles[i].tx >= WIDTH \div 2 => particles[i].x = -(WIDTH \div 2)
        /\ particles[i].ty >= HEIGHT \div 2 => particles[i].y = -(HEIGHT \div 2)

\* a particle has stepped as far past the upper edge of x as a step can
C16_FarOvershoot ==
    \E i \in 1..N :
        /\ particles[i].tx = WIDTH \div 2 + MaxStep - 1
        /\ particles[i].x = -(WIDTH \div 2)

\* C17: a step to x < -W/2 ends the tick at x = +W/2, and a step to
\* y < -H/2 at y = +H/2.
C17_LowerTeleport ==
    \A i \in 1..N :
        /\ particles[i].tx < -(WIDTH \div 2) => particles[i].x = WIDTH \div 2
        /\ particles[i].ty < -(HEIGHT \div 2) => particles[i].y = HEIGHT \div 2

\* C18: the pixel of every particle is column x + W/2 and row
\* (H-1) - (y + H/2), inside the raster before any clamp, so the sampled
\* index row * W + column is in [0, W*H).
C18_SampleInBounds ==
    \A i \in 1..N :
        LET p == particles[i] IN
        /\ pixel(p) = <<p.x + WIDTH \div 2, (HEIGHT - 1) - (p.y + HEIGHT \div 2)>>
        /\ pixel(p)[1] \in 0..(WIDTH - 1)
        /\ pixel(p)[2] \in 0..(HEIGHT - 1)
        /\ pixel_index(p) = pixel(p)[2] * WIDTH + pixel(p)[1]
        /\ pixel_index(p) \in 0..(WIDTH * HEIGHT - 1)

\* a tick has sampled and left a particle on the last pixel of the raster
C18_LastPixel ==
    \E i \in 1..N :
        /\ particles[i].color >= 0
        /\ pixel_index(particles[i]) = WIDTH * HEIGHT - 1

\* C19: play_index never exceeds floor(elapsed * FPS); the elapsed time
\* advances only when update_sprite runs while Playing; no frame is
\* displayed before one frame period of playback has elapsed.
C19_Step ==
    elapsed' # elapsed =>
        (Ran("update_sprite") /\ state = "Playing" /\ elapsed' > elapsed)

C19_BehindClock ==
    /\ [](play_index <= current_idx(elapsed))
    /\ [](elapsed < Sub => (image = 0 /\ play_index = 0))
    /\ [][C19_Step]_vars

\* the display is level with the clock after several frames
C19_OnTime ==
    /\ play_index >= 3
    /\ play_index = current_idx(elapsed)

\* C20: every particle's last_moved_index (standstill) is at most
\* play_index, so play_index - last_moved_index does not underflow.
C20_NoUnderflow ==
    \A i \in 1..N : particles[i].standstill <= play_index

\* a particle frozen on frame 1 carries last_moved_index = 1
C20_Marked ==
    \E i \in 1..N :
        /\ particles[i].standstill = 1
        /\ particles[i].color \in 0..Threshold

=============================================================================
